---- MODULE Spec2Model ----
(***************************************************************************)
(* Survey dashboard (src/app.py): a Streamlit script that is re-executed   *)
(* top to bottom on every widget change.  The model carries the CSV on     *)
(* disk, the st.cache_data memo of load_data, the sidebar and body widget  *)
(* values, and the values one execution of the script computes.            *)
(*                                                                         *)
(* A DataFrame is a sequence of rows; a row is a function from column      *)
(* names to values and carries its pandas index label in "index".          *)
(* "Avg Score" is the mean of four integer scores; it is carried as its    *)
(* numerator over 4 (the sum of the four scores), which is exact and       *)
(* orders rows exactly as the floating-point mean does.                    *)
(***************************************************************************)
EXTENDS Integers, Sequences, FiniteSets, TLC

\* ---------------------------------------------------------------- bounds
MaxRows == 3
MaxScore == 2

\* ------------------------------------------------------ program constants
QUESTION_COLS == <<"Question #1", "Question #2", "Question #3", "Question #4">>
HeadN == 5
NumQuestions == Len(QUESTION_COLS)
Questions == {QUESTION_COLS[k] : k \in 1..NumQuestions}

\* ----------------------------------------------------------- cell values
\* NaN is what pd.read_csv makes of an empty cell.
NaN == "NaN"
Genders == {"M", "F"}
AgeGroups == {"18-25", "26-35"}
ScoreVals == 1..MaxScore

\* ---------------------------------------------------------------- helpers
Min(a, b) == IF a <= b THEN a ELSE b

RECURSIVE SumSeq(_)
SumSeq(s) == IF s = <<>> THEN 0 ELSE Head(s) + SumSeq(Tail(s))

Column(frame, col) == [i \in 1..Len(frame) |-> frame[i][col]]
Values(frame, col) == {frame[i][col] : i \in 1..Len(frame)}

\* ------------------------------------------------------------ CSV on disk
\* A CSV line: participant id, gender cell, age cell (either may be empty,
\* which pd.read_csv reads as NaN) and the four question scores.
CsvRow(p, g, a, sc) ==
    [Participant |-> p, Gender |-> g, Age |-> a, Scores |-> sc]

\* The four scores of a respondent whose first answer is a: the second
\* question runs against the first, the third repeats it, the fourth is the
\* same for everyone.
ScoreVector(a) == <<a, MaxScore + 1 - a, a, 1>>

\* Demographic tables: the gender and age cells vary (both genders, both age
\* groups, a missing gender, a missing age); the scores follow the row.
DemographicCells ==
    {<<"M", "18-25">>, <<"F", "18-25">>, <<"M", "26-35">>, <<"F", "26-35">>,
     <<NaN, "18-25">>, <<"M", NaN>>}

DemographicRows(n) ==
    { [i \in 1..n |-> CsvRow(i, ga[i][1], ga[i][2], ScoreVector(((i - 1) % MaxScore) + 1))] :
        ga \in [1..n -> DemographicCells] }

\* Score tables: one demographic group, every respondent's answer varies.
ScoreRows(n) ==
    { [i \in 1..n |-> CsvRow(i, "M", "18-25", ScoreVector(s[i]))] :
        s \in [1..n -> ScoreVals] }

\* Long tables: one row more than head(5) keeps, every respondent's answer
\* the lowest or the highest score.
LongRows ==
    { [i \in 1..(HeadN + 1) |-> CsvRow(i, "M", "18-25", ScoreVector(s[i]))] :
        s \in [1..(HeadN + 1) -> {1, MaxScore}] }

CsvFiles ==
    UNION { DemographicRows(n) \cup ScoreRows(n) : n \in 0..MaxRows } \cup LongRows

\* ------------------------------------------------------------- DataFrames
DfColumns == {"index", "Participant", "Gender", "Age", "Avg Score"} \cup Questions
NoRow == [c \in DfColumns |-> IF c \in {"Gender", "Age"} THEN NaN ELSE -1]

\* pd.read_csv: one row per line, RangeIndex 0..n-1, an empty cell is NaN.
read_csv(file) ==
    [i \in 1..Len(file) |->
        [c \in DfColumns \ {"Avg Score"} |->
            CASE c = "index" -> i - 1
              [] c = "Participant" -> file[i].Participant
              [] c = "Gender" -> file[i].Gender
              [] c = "Age" -> file[i].Age
              [] OTHER -> file[i].Scores[CHOOSE k \in 1..NumQuestions : QUESTION_COLS[k] = c]]]

\* df["Avg Score"] = df[QUESTION_COLS].mean(axis=1), as the numerator over 4.
AvgScore(row) == SumSeq([k \in 1..NumQuestions |-> row[QUESTION_COLS[k]]])

WithAvgScore(frame) ==
    [i \in 1..Len(frame) |->
        [c \in DfColumns |-> IF c = "Avg Score" THEN AvgScore(frame[i]) ELSE frame[i][c]]]

\* load_data without the @st.cache_data decorator: every execution reads the
\* file again.
load_data_uncached(file, memo, nreads) ==
    LET t == WithAvgScore(read_csv(file))
    IN [df |-> t, cache |-> <<t>>, reads |-> nreads + 1]

\* @st.cache_data load_data(): the body runs on a miss only; a hit returns a
\* copy of the memoized table.  memo is <<>> on a miss, <<table>> on a hit.
load_data(file, memo, nreads) ==
    IF memo # <<>>
    THEN [df |-> memo[1], cache |-> memo, reads |-> nreads]
    ELSE LET t == WithAvgScore(read_csv(file))
         IN [df |-> t, cache |-> <<t>>, reads |-> nreads + 1]

\* sorted(df[col].dropna().unique()): the values a multiselect offers.
Options(frame, col) == Values(frame, col) \ {NaN}

\* The mask with | in place of &.
MaskEither(row, gsel, asel) == row["Gender"] \in gsel \/ row["Age"] \in asel

\* df["Gender"].isin(gender_filter) & df["Age"].isin(age_filter)
Mask(row, gsel, asel) == row["Gender"] \in gsel /\ row["Age"] \in asel

\* df[mask].copy(): boolean indexing keeps the selected rows, their order and
\* their index labels.
Filter(frame, gsel, asel) == SelectSeq(frame, LAMBDA row : Mask(row, gsel, asel))

\* The script without the empty check.
NeverStop(frame) == FALSE

\* if filtered.empty: st.warning(...); st.stop()
ShouldStop(frame) == Len(frame) = 0

\* melt over value_vars=QUESTION_COLS[:3]: the last question is left out.
to_long_three(frame) ==
    [n \in 1..((NumQuestions - 1) * Len(frame)) |->
        LET k == ((n - 1) \div Len(frame)) + 1
            i == ((n - 1) % Len(frame)) + 1
        IN [index |-> n - 1,
            Participant |-> frame[i]["Participant"],
            Gender |-> frame[i]["Gender"],
            Age |-> frame[i]["Age"],
            Question |-> QUESTION_COLS[k],
            Score |-> frame[i][QUESTION_COLS[k]]] @@ ("Avg Score" :> frame[i]["Avg Score"])]

\* A reshape that walks the rows first and the questions second.
to_long_by_record(frame) ==
    [n \in 1..(NumQuestions * Len(frame)) |->
        LET i == ((n - 1) \div NumQuestions) + 1
            k == ((n - 1) % NumQuestions) + 1
        IN [index |-> n - 1,
            Participant |-> frame[i]["Participant"],
            Gender |-> frame[i]["Gender"],
            Age |-> frame[i]["Age"],
            Question |-> QUESTION_COLS[k],
            Score |-> frame[i][QUESTION_COLS[k]]] @@ ("Avg Score" :> frame[i]["Avg Score"])]

\* df.melt(id_vars, value_vars=QUESTION_COLS): the rows of the first value
\* column, then those of the second, ..., under a fresh RangeIndex.
to_long(frame) ==
    [n \in 1..(NumQuestions * Len(frame)) |->
        LET k == ((n - 1) \div Len(frame)) + 1
            i == ((n - 1) % Len(frame)) + 1
        IN [index |-> n - 1,
            Participant |-> frame[i]["Participant"],
            Gender |-> frame[i]["Gender"],
            Age |-> frame[i]["Age"],
            Question |-> QUESTION_COLS[k],
            Score |-> frame[i][QUESTION_COLS[k]]] @@ ("Avg Score" :> frame[i]["Avg Score"])]

\* idxmax returning the label of the last occurrence of the maximum.
idxmax_last(frame, col) ==
    IF frame = <<>> THEN -1
    ELSE LET i == CHOOSE i \in 1..Len(frame) :
                    /\ \A j \in 1..Len(frame) : frame[j][col] <= frame[i][col]
                    /\ \A j \in (i + 1)..Len(frame) : frame[j][col] < frame[i][col]
         IN frame[i]["index"]

\* Series.idxmax() / idxmin(): the index label of the first occurrence of the
\* extreme value.  (pandas raises on an empty Series; -1 stands for that.)
idxmax(frame, col) ==
    IF frame = <<>> THEN -1
    ELSE LET i == CHOOSE i \in 1..Len(frame) :
                    /\ \A j \in 1..Len(frame) : frame[j][col] <= frame[i][col]
                    /\ \A j \in 1..(i - 1) : frame[j][col] < frame[i][col]
         IN frame[i]["index"]

idxmin(frame, col) ==
    IF frame = <<>> THEN -1
    ELSE LET i == CHOOSE i \in 1..Len(frame) :
                    /\ \A j \in 1..Len(frame) : frame[j][col] >= frame[i][col]
                    /\ \A j \in 1..(i - 1) : frame[j][col] > frame[i][col]
         IN frame[i]["index"]

\* frame.loc[label]: the row carrying that index label.
loc(frame, label) ==
    IF \E i \in 1..Len(frame) : frame[i]["index"] = label
    THEN frame[CHOOSE i \in 1..Len(frame) : frame[i]["index"] = label]
    ELSE NoRow

\* Overview metrics: len(filtered), the mean of Avg Score (as <<sum, count>>),
\* and the rows of the highest and the lowest Avg Score.
Overview(frame) ==
    [count |-> Len(frame),
     mean |-> <<SumSeq(Column(frame, "Avg Score")), Len(frame)>>,
     best_row |-> loc(frame, idxmax(frame, "Avg Score")),
     worst_row |-> loc(frame, idxmin(frame, "Avg Score"))]

\* frame[cols]: column projection; rows, order and index labels are kept.
Project(frame, cols) ==
    [i \in 1..Len(frame) |-> [c \in cols \cup {"index"} |-> frame[i][c]]]

\* frame.rename(columns={old: new})
Rename(frame, old, new) ==
    [i \in 1..Len(frame) |->
        [c \in (DOMAIN frame[i] \ {old}) \cup {new} |->
            IF c = new THEN frame[i][old] ELSE frame[i][c]]]

\* frame.sort_values(col, ascending=...) with the default kind="quicksort",
\* which pandas documents as not stable: rows are ordered by col, and rows
\* with equal col come out in an order the build decides.  tie is that
\* order: a permutation of the row positions.
sort_values(frame, col, ascending, tie) ==
    LET n == Len(frame)
        Before(i, j) ==
            IF frame[i][col] = frame[j][col] THEN tie[i] < tie[j]
            ELSE IF ascending THEN frame[i][col] < frame[j][col]
                              ELSE frame[i][col] > frame[j][col]
        Pos(i) == 1 + Cardinality({j \in 1..n : Before(j, i)})
    IN [k \in 1..n |-> frame[CHOOSE i \in 1..n : Pos(i) = k]]

\* The tie orders explored for a frame of n rows: every permutation of the
\* rows up to MaxRows rows; for longer frames the n rotations of the stable
\* order and the n rotations of its reverse.
TieOrders(n) ==
    IF n <= MaxRows
    THEN Permutations(1..n)
    ELSE { [i \in 1..n |-> ((i - 1 + r) % n) + 1] : r \in 0..(n - 1) } \cup
         { [i \in 1..n |-> ((n - i + r) % n) + 1] : r \in 0..(n - 1) }

\* frame.reset_index(drop=True): a fresh RangeIndex 0..n-1.
reset_index(frame) ==
    [i \in 1..Len(frame) |-> [frame[i] EXCEPT !["index"] = i - 1]]

\* A rank shared by rows of equal Avg Score: one more than the number of
\* rows with a strictly higher Avg Score.
WithSharedRank(frame) ==
    [i \in 1..Len(frame) |->
        frame[i] @@ ("Rank" :>
            1 + Cardinality({j \in 1..Len(frame) :
                                frame[j]["Avg Score"] > frame[i]["Avg Score"]}))]

\* ranking["Rank"] = ranking.index + 1
WithRank(frame) ==
    [i \in 1..Len(frame) |-> frame[i] @@ ("Rank" :> frame[i]["index"] + 1)]

\* The ranking with sort_values left at its default, ascending=True.
RankingAscending(frame, tie) ==
    WithRank(reset_index(sort_values(
        Project(frame, {"Participant", "Avg Score", "Gender", "Age"}),
        "Avg Score", TRUE, tie)))

\* The ranking table of the Participant View.
Ranking(frame, tie) ==
    WithRank(reset_index(sort_values(
        Project(frame, {"Participant", "Avg Score", "Gender", "Age"}),
        "Avg Score", FALSE, tie)))

\* head keeping one row fewer.
head_short(frame, n) == SubSeq(frame, 1, Min(n - 1, Len(frame)))

\* frame.head(n)
head(frame, n) == SubSeq(frame, 1, Min(n, Len(frame)))

\* q_df = filtered[["Participant", "Gender", "Age", q]].rename(columns={q: "Score"})
QuestionFrame(frame, question) ==
    Rename(Project(frame, {"Participant", "Gender", "Age", question}), question, "Score")

Top(qdf, tie) == head(sort_values(qdf, "Score", FALSE, tie), HeadN)
Bottom(qdf, tie) == head(sort_values(qdf, "Score", TRUE, tie), HeadN)

\* q_df.groupby("Age")["Score"].mean().reindex(age_order): one mean, as
\* <<sum, count>>, per age group present in the filtered rows.
AgeMeans(qdf) ==
    [a \in Options(qdf, "Age") |->
        LET g == SelectSeq(qdf, LAMBDA row : row["Age"] = a)
        IN <<SumSeq(Column(g, "Score")), Len(g)>>]

NoOverview == [count |-> 0, mean |-> <<0, 0>>, best_row |-> NoRow, worst_row |-> NoRow]

\* ------------------------------------------------------------------ state
\* The script's variables are those of one execution: a new execution starts
\* with none of them set.  Unset holds the place of the selectbox value the
\* execution has not read yet.
Unset == ""

VARIABLES
    csv,            \* test_data.csv on disk
    cache,          \* st.cache_data memo of load_data: <<>> or <<table>>
    reads,          \* how many times pd.read_csv has run
    pc,             \* "start" | "body" | "stopped" | "done"
    gender_filter,  \* sidebar multiselect "Gender"
    age_filter,     \* sidebar multiselect "Age"
    q,              \* selectbox "Select a question"
    df,             \* this execution's load_data()
    filtered,       \* this execution's filtered frame
    page,           \* what this execution has put on the page
    long_df,
    overview,
    ranking,
    top,
    bottom,
    age_means

widgets == <<gender_filter, age_filter, q>>
outputs == <<long_df, overview, ranking, top, bottom, age_means>>
vars == <<csv, cache, reads, pc, df, filtered, page, widgets, outputs>>

BodySections == {"long_df", "overview", "ranking", "top_bottom", "age_means"}

Init ==
    /\ csv \in CsvFiles
    /\ cache = <<>>
    /\ reads = 0
    /\ pc = "start"
    /\ gender_filter = {}
    /\ age_filter = {}
    /\ q = Unset
    /\ df = <<>>
    /\ filtered = <<>>
    /\ page = {}
    /\ long_df = <<>>
    /\ overview = NoOverview
    /\ ranking = <<>>
    /\ top = <<>>
    /\ bottom = <<>>
    /\ age_means = <<>>

\* Lines 24-46 of one execution: load, read the sidebar, filter, and stop
\* with a warning when nothing is left.
ScriptTop(gsel, asel) ==
    LET ld == load_data(csv, cache, reads)
        f == Filter(ld.df, gsel, asel)
    IN /\ df' = ld.df
       /\ cache' = ld.cache
       /\ reads' = ld.reads
       /\ gender_filter' = gsel
       /\ age_filter' = asel
       /\ filtered' = f
       /\ IF ShouldStop(f)
          THEN page' = {"warning"} /\ pc' = "stopped"
          ELSE page' = {} /\ pc' = "body"
       /\ q' = Unset
       /\ long_df' = <<>>
       /\ overview' = NoOverview
       /\ ranking' = <<>>
       /\ top' = <<>>
       /\ bottom' = <<>>
       /\ age_means' = <<>>
       /\ UNCHANGED csv

\* The first execution of a session: the multiselects return their default,
\* all of their options.
FirstRun ==
    /\ pc = "start"
    /\ LET t == load_data(csv, cache, reads).df
       IN ScriptTop(Options(t, "Gender"), Options(t, "Age"))

\* A widget change makes Streamlit execute the script again; the sidebar
\* returns the user's selection among the options of the loaded table.
Rerun(gsel, asel) ==
    /\ pc \in {"stopped", "done"}
    /\ gsel \subseteq Options(df, "Gender")
    /\ asel \subseteq Options(df, "Age")
    /\ ScriptTop(gsel, asel)

ChangeGender(gsel) == Rerun(gsel, age_filter)
ChangeAge(asel) == Rerun(gender_filter, asel)

\* Lines 48-320 of the execution: everything computed from a non-empty
\* filtered frame.  question is what the "Select a question" box returns.
ScriptBody(question) ==
    /\ pc = "body"
    /\ q' = question
    /\ \E tie \in TieOrders(Len(filtered)) :
        LET qdf == QuestionFrame(filtered, question)
        IN /\ long_df' = to_long(filtered)
           /\ overview' = Overview(filtered)
           /\ ranking' = Ranking(filtered, tie)
           /\ top' = Top(qdf, tie)
           /\ bottom' = Bottom(qdf, tie)
           /\ age_means' = AgeMeans(qdf)
    /\ page' = BodySections
    /\ pc' = "done"
    /\ UNCHANGED <<csv, cache, reads, df, filtered, gender_filter, age_filter>>

Next ==
    \/ FirstRun
    \/ \E gsel \in SUBSET Genders : ChangeGender(gsel)
    \/ \E asel \in SUBSET AgeGroups : ChangeAge(asel)
    \/ \E question \in Questions : ScriptBody(question)

Spec == Init /\ [][Next]_vars

\* ================================================================ claims
Ran == pc \in {"body", "stopped", "done"}
Done == pc = "done"
Rows(frame) == 1..Len(frame)

\* The position in df of the row carrying an index label (labels are 0..n-1).
Kept == {filtered[k]["index"] : k \in Rows(filtered)}

\* C1: once the sidebar has been read, filtered holds exactly the rows of df
\* whose Gender is among the selected genders and whose Age is among the
\* selected ages, each once, unchanged, and in the order they have in df.
C1_FilterIsSubsequence ==
    Ran =>
        /\ \A k \in Rows(filtered) :
              /\ filtered[k]["index"] + 1 \in Rows(df)
              /\ filtered[k] = df[filtered[k]["index"] + 1]
        /\ \A k, l \in Rows(filtered) :
              k < l => filtered[k]["index"] < filtered[l]["index"]
        /\ \A i \in Rows(df) :
              (i - 1 \in Kept) <=>
                  (df[i]["Gender"] \in gender_filter /\ df[i]["Age"] \in age_filter)

\* C1 witness: three rows loaded, the middle one filtered out, the outer two
\* kept in order.
C1_Witness ==
    /\ Done
    /\ Len(df) = 3
    /\ Len(filtered) = 2
    /\ filtered[1]["index"] = 0
    /\ filtered[2]["index"] = 2

\* C2: an empty filter result (in particular an empty gender or age
\* selection) ends the execution with the warning and nothing else on the
\* page; whatever the body computes, it computes from at least one row.
C2_EmptyResultStops ==
    /\ (Ran /\ filtered = <<>>) => pc = "stopped"
    /\ (Ran /\ (gender_filter = {} \/ age_filter = {})) => pc = "stopped"
    /\ pc = "stopped" =>
          /\ page = {"warning"}
          /\ long_df = <<>> /\ overview = NoOverview /\ ranking = <<>>
          /\ top = <<>> /\ bottom = <<>> /\ age_means = <<>>
    /\ (pc = "body" \/ page \cap BodySections # {}) =>
          /\ Len(filtered) >= 1
          /\ "warning" \notin page
    /\ Done =>
          /\ overview.count >= 1
          /\ overview.best_row # NoRow /\ overview.worst_row # NoRow
          /\ Len(long_df) >= 1 /\ Len(ranking) >= 1
          /\ Len(top) >= 1 /\ Len(bottom) >= 1
          /\ \A a \in DOMAIN age_means : age_means[a][2] >= 1

\* C2 witness: a table with rows, the user has cleared the gender selection,
\* and the execution stopped on the warning.
C2_Witness ==
    /\ pc = "stopped"
    /\ Len(df) >= 2
    /\ gender_filter = {}
    /\ age_filter # {}
    /\ page = {"warning"}

\* C3: when every gender option and every age option of the sidebar is
\* selected, filtered is the loaded table, row for row.
C3_AllOptionsIsIdentity ==
    (Ran /\ gender_filter = Options(df, "Gender") /\ age_filter = Options(df, "Age"))
        => filtered = df

\* C4: the file is read once; from then on the memo never changes, every
\* execution's df is the memoized table, and no step of an execution
\* changes df.
C4_LoadedOnce ==
    [][ /\ cache # <<>> => (cache' = cache /\ reads' = reads)
        /\ pc' # "start" => (reads' = 1 /\ cache' # <<>> /\ df' = cache'[1])
        /\ pc # "start" => df' = df ]_vars

\* C4 witness: a later execution (the selection is no longer the default)
\* has run to its end on the table read by the first one.
C4_Witness ==
    /\ Done
    /\ reads = 1
    /\ Len(df) = 3
    /\ df = cache[1]
    /\ gender_filter # Options(df, "Gender")

\* The rows of the ranking that show one filtered row.
RankingRowsOf(k) ==
    {i \in Rows(ranking) :
        /\ ranking[i]["Participant"] = filtered[k]["Participant"]
        /\ ranking[i]["Avg Score"] = filtered[k]["Avg Score"]
        /\ ranking[i]["Gender"] = filtered[k]["Gender"]
        /\ ranking[i]["Age"] = filtered[k]["Age"]}

\* C5: the ranking has one row per filtered row, Avg Score never increases
\* down the table, and the row at position i has Rank i.
C5_RankingIsDescendingPermutation ==
    Done =>
        /\ Len(ranking) = Len(filtered)
        /\ \A k \in Rows(filtered) : Cardinality(RankingRowsOf(k)) = 1
        /\ \A i \in Rows(ranking) : ranking[i]["Rank"] = i
        /\ \A i, j \in Rows(ranking) :
              i < j => ranking[i]["Avg Score"] >= ranking[j]["Avg Score"]

\* C5 witness: three rows ranked, the best of them not the first of the
\* table, and the Avg Score strictly falling from rank 1 to rank 3.
C5_Witness ==
    /\ Done
    /\ Len(ranking) = 3
    /\ ranking[1]["Participant"] # filtered[1]["Participant"]
    /\ ranking[1]["Avg Score"] > ranking[3]["Avg Score"]
    /\ ranking[3]["Rank"] = 3

\* C6: the overview counts the filtered rows; best_row is the first row, in
\* table order, with the highest Avg Score and worst_row the first with the
\* lowest.
C6_OverviewBestWorst ==
    Done =>
        /\ overview.count = Len(filtered)
        /\ \E i \in Rows(filtered) : filtered[i] = overview.best_row
        /\ \E i \in Rows(filtered) : filtered[i] = overview.worst_row
        /\ \A j \in Rows(filtered) :
              /\ filtered[j]["Avg Score"] <= overview.best_row["Avg Score"]
              /\ filtered[j]["Avg Score"] >= overview.worst_row["Avg Score"]
              /\ filtered[j]["Avg Score"] = overview.best_row["Avg Score"]
                    => filtered[j]["index"] >= overview.best_row["index"]
              /\ filtered[j]["Avg Score"] = overview.worst_row["Avg Score"]
                    => filtered[j]["index"] >= overview.worst_row["index"]

\* C6 witness: the highest Avg Score is shared by two rows, neither of them
\* the first of the table, and best_row is the earlier of the two.
C6_Witness ==
    /\ Done
    /\ Len(filtered) = 3
    /\ overview.count = 3
    /\ overview.best_row = filtered[2]
    /\ filtered[3]["Avg Score"] = filtered[2]["Avg Score"]
    /\ overview.worst_row = filtered[1]

\* The rows of long_df that belong to filtered row i and question k.
LongRowsOf(i, k) ==
    {n \in Rows(long_df) :
        /\ long_df[n]["Participant"] = filtered[i]["Participant"]
        /\ long_df[n]["Question"] = QUESTION_COLS[k]}

\* C7: long_df has 4 rows per filtered row, exactly one for every pair of a
\* filtered row and a question, and that row carries the row's score for
\* the question and the row's Participant, Gender and Age.
C7_LongFormCoversEveryPair ==
    Done =>
        /\ Len(long_df) = 4 * Len(filtered)
        /\ \A i \in Rows(filtered), k \in 1..NumQuestions :
              /\ Cardinality(LongRowsOf(i, k)) = 1
              /\ \A n \in LongRowsOf(i, k) :
                    /\ long_df[n]["Score"] = filtered[i][QUESTION_COLS[k]]
                    /\ long_df[n]["Gender"] = filtered[i]["Gender"]
                    /\ long_df[n]["Age"] = filtered[i]["Age"]

\* C7 witness: three rows reshaped into twelve, with scores that differ
\* between questions and between respondents.
C7_Witness ==
    /\ Done
    /\ Len(filtered) = 3
    /\ Len(long_df) = 12
    /\ filtered[1]["Question #1"] # filtered[1]["Question #2"]
    /\ filtered[1]["Question #1"] # filtered[2]["Question #1"]
    /\ \E n \in Rows(long_df) :
          /\ long_df[n]["Participant"] = filtered[2]["Participant"]
          /\ long_df[n]["Question"] = "Question #2"
          /\ long_df[n]["Score"] = filtered[2]["Question #2"]

\* The place of a long-form row's question in QUESTION_COLS and of its
\* respondent in filtered.
QuestionNo(n) == CHOOSE k \in 1..NumQuestions : QUESTION_COLS[k] = long_df[n]["Question"]
RecordNo(n) ==
    CHOOSE i \in Rows(filtered) : filtered[i]["Participant"] = long_df[n]["Participant"]

\* C8 as stated: the rows of long_df come record by record, the four
\* questions of the first record before any row of the second.
C8_RecordThenQuestion ==
    Done =>
        \A m, n \in Rows(long_df) :
            m < n =>
                \/ RecordNo(m) < RecordNo(n)
                \/ (RecordNo(m) = RecordNo(n) /\ QuestionNo(m) < QuestionNo(n))

\* C8 amended: the rows of long_df come question by question in the order
\* of QUESTION_COLS, and within one question in the order of the table.
C8_QuestionThenRecord ==
    Done =>
        \A m, n \in Rows(long_df) :
            m < n =>
                \/ QuestionNo(m) < QuestionNo(n)
                \/ (QuestionNo(m) = QuestionNo(n) /\ RecordNo(m) < RecordNo(n))

\* C8 witness: with two rows or more, the second long-form row is the
\* second respondent's answer to the first question.
C8_Witness ==
    /\ Done
    /\ Len(filtered) >= 2
    /\ long_df[2]["Participant"] = filtered[2]["Participant"]
    /\ long_df[2]["Question"] = QUESTION_COLS[1]
    /\ long_df[Len(filtered) + 1]["Participant"] = filtered[1]["Participant"]
    /\ long_df[Len(filtered) + 1]["Question"] = QUESTION_COLS[2]

\* The rank the ranking gives to filtered row k.
RankOf(k) ==
    ranking[CHOOSE i \in Rows(ranking) :
                ranking[i]["Participant"] = filtered[k]["Participant"]]["Rank"]

SelectedScore(k) == filtered[k][q]
Shows(list, k) ==
    \E i \in Rows(list) :
        /\ list[i]["Participant"] = filtered[k]["Participant"]
        /\ list[i]["Score"] = SelectedScore(k)

\* C10: Top and Bottom each hold min(5, N) different filtered rows; no row
\* left out of Top scores higher than a row in it, no row left out of
\* Bottom scores lower than a row in it; below five rows both hold all.
C10_TopBottomFive ==
    Done =>
        /\ Len(top) = Min(5, Len(filtered))
        /\ Len(bottom) = Min(5, Len(filtered))
        /\ \A i, j \in Rows(top) : i # j => top[i]["Participant"] # top[j]["Participant"]
        /\ \A i, j \in Rows(bottom) :
              i # j => bottom[i]["Participant"] # bottom[j]["Participant"]
        /\ \A i \in Rows(top) : \E k \in Rows(filtered) : Shows(<<top[i]>>, k)
        /\ \A i \in Rows(bottom) : \E k \in Rows(filtered) : Shows(<<bottom[i]>>, k)
        /\ \A k, l \in Rows(filtered) :
              /\ (Shows(top, k) /\ ~Shows(top, l)) => SelectedScore(k) >= SelectedScore(l)
              /\ (Shows(bottom, k) /\ ~Shows(bottom, l))
                    => SelectedScore(k) <= SelectedScore(l)
        /\ Len(filtered) < 5 =>
              \A k \in Rows(filtered) : Shows(top, k) /\ Shows(bottom, k)

\* C10 witness: six rows, five in each list; the first row of the table is
\* the one Top leaves out and the last row the one Bottom leaves out.
C10_Witness ==
    /\ Done
    /\ Len(filtered) = 6
    /\ Len(top) = 5
    /\ Len(bottom) = 5
    /\ ~Shows(top, 1)
    /\ ~Shows(bottom, 6)
    /\ SelectedScore(1) < SelectedScore(6)

====
